---- MODULE Spec2Model ----
(***************************************************************************)
(* HampterLiker: the workflow of src/youtube_service.py.                   *)
(*                                                                         *)
(* One call of like_all_channel_videos(youtube, handle, on_progress) is    *)
(* modelled as a sequential process (pc) running against the YouTube API,  *)
(* whose answers are the nondeterministic inputs of the actions.           *)
(*                                                                         *)
(* Strings that the code inspects (handles, error texts) are sequences of  *)
(* one-character strings, so that lstrip, lower and "in" are computed.     *)
(***************************************************************************)
EXTENDS Integers, Sequences, FiniteSets, TLC

(***************************************************************************)
(* Bounds of the model (not program constants).                            *)
(***************************************************************************)
\* The channel holds at most MaxVideos videos over all pages.
MaxVideos == 2
\* The API is free to vary its search answers for the first MaxTurns page
\* responses; from then on it repeats the shape of its last answer (an empty
\* page, with a cursor iff the last answer had one).
MaxTurns == 2

(***************************************************************************)
(* Program constants.                                                      *)
(***************************************************************************)
\* reduce(accumulate_videos, range(100), ...)
MaxPagesOffByOne == 100 + 1
MaxPages == 100

(***************************************************************************)
(* Optional[T]                                                             *)
(***************************************************************************)
None == [tag |-> "None"]
Some(v) == [tag |-> "Some", val |-> v]
IsSome(o) == o.tag = "Some"

(***************************************************************************)
(* Strings as sequences of characters.                                     *)
(***************************************************************************)
UpperChars == <<"A","B","C","D","E","F","G","H","I","J","K","L","M",
                "N","O","P","Q","R","S","T","U","V","W","X","Y","Z">>
LowerChars == <<"a","b","c","d","e","f","g","h","i","j","k","l","m",
                "n","o","p","q","r","s","t","u","v","w","x","y","z">>

\* str.lower() on one character
LowerChar(c) ==
  IF \E i \in 1..26 : UpperChars[i] = c
  THEN LowerChars[CHOOSE i \in 1..26 : UpperChars[i] = c]
  ELSE c

\* str.lower()
Lower(s) == [i \in 1..Len(s) |-> LowerChar(s[i])]

\* needle in s
Contains(s, needle) ==
  \E i \in 0..(Len(s) - Len(needle)) :
     \A j \in 1..Len(needle) : s[i + j] = needle[j]

\* s.lstrip(c)
RECURSIVE LStrip(_, _)
LStrip(s, c) ==
  IF s # <<>> /\ Head(s) = c THEN LStrip(Tail(s), c) ELSE s


(***************************************************************************)
(* Data structures (frozen dataclasses).                                   *)
(***************************************************************************)
Channel(id, h) == [id |-> id, handle |-> h]
Video(id) == [id |-> id]
LikeResult(video_id, success, error, quota_exceeded) ==
  [video_id |-> video_id, success |-> success,
   error |-> error, quota_exceeded |-> quota_exceeded]

(***************************************************************************)
(* What the API can answer (the inputs of the actions).                    *)
(***************************************************************************)
\* handle strings passed by the caller
Handles == { <<"@","a">>, <<"a">> }

VideoIds == {"v1", "v2"}
Tokens == {"t1", "t2"}

\* channels().list(...).execute(): raises, or returns a response whose "items"
\* holds zero, one or several channels
LookupResponses ==
  { [kind |-> "raise"] } \cup
  { [kind |-> "ok", items |-> s] :
      s \in { <<>>, <<[id |-> "UC1"]>>, <<[id |-> "UC2"], [id |-> "UC1"]>> } }

\* all sequences over S of length at most n
SeqsUpTo(S, n) == UNION { [1..k -> S] : k \in 0..n }

\* search().list(...).execute(): raises, or returns a page of items with or
\* without a nextPageToken
PageResponses(room) ==
  { [kind |-> "raise"] } \cup
  { [kind |-> "ok", items |-> [i \in 1..Len(s) |-> [id |-> [videoId |-> s[i]]]],
     nextPageToken |-> t] :
      s \in SeqsUpTo(VideoIds, room),
      t \in {None} \cup { Some(x) : x \in Tokens } }

\* str(HttpError) of a failed videos().rate() call
TextForbidden == <<"4","0","3">>
TextNearMiss  == <<"q","u","o","t">>
TextReason    == <<"q","u","o","t","a","E","x","c","e","e","d","e","d">>
TextUpper     == <<"Q","u","o","t","a">>
NonQuotaTexts == { TextForbidden, TextNearMiss }
QuotaTexts    == { TextReason, TextUpper }
ErrorTexts    == NonQuotaTexts \cup QuotaTexts

\* videos().rate(...).execute(): returns, raises HttpError, or raises
\* something that is not an HttpError
RateOutcomes ==
  { [kind |-> "ok"], [kind |-> "raise"] } \cup
  { [kind |-> "HttpError", text |-> t] : t \in ErrorTexts }

(***************************************************************************)
(* Pure functions of youtube_service.py.                                   *)
(***************************************************************************)
\* handle.lstrip('@')
clean_handle_once(h) == IF h # <<>> /\ Head(h) = "@" THEN Tail(h) ELSE h
clean_handle(h) == LStrip(h, "@")

\* try: items = response.get("items", []); return items[0] if items else None
\* except Exception: return None
lookup_channel_by_handle(resp) ==
  IF resp.kind = "raise" THEN None
  ELSE IF resp.items # <<>> THEN Some(resp.items[1]) ELSE None

lookup_channel_by_username_last(resp) ==
  IF resp.kind = "raise" THEN None
  ELSE IF resp.items # <<>> THEN Some(resp.items[Len(resp.items)]) ELSE None

lookup_channel_by_username(resp) ==
  IF resp.kind = "raise" THEN None
  ELSE IF resp.items # <<>> THEN Some(resp.items[1]) ELSE None

\* lookup_strategies = [lookup_channel_by_handle, lookup_channel_by_username]
NumStrategies == 2
StrategyParam(i) == IF i = 1 THEN "forHandle" ELSE "forUsername"
Strategy(i, resp) ==
  IF i = 1 THEN lookup_channel_by_handle(resp)
  ELSE lookup_channel_by_username(resp)

\* [item["id"]["videoId"] for item in response.get("items", [])]
extract_video_ids(response) ==
  [i \in 1..Len(response.items) |-> response.items[i].id.videoId]

\* accumulate_videos: "if page_token is None and video_ids: return acc"
AlreadyFinished(ids, token) == token = None /\ ids # <<>>

\* "quotaExceeded" in error_str or "quota" in error_str.lower()
is_quota_exceeded_error_always(error_str) == TRUE
is_quota_exceeded_error(error_str) ==
  \/ Contains(error_str, <<"q","u","o","t","a","E","x","c","e","e","d","e","d">>)
  \/ Contains(Lower(error_str), <<"q","u","o","t","a">>)

\* like_video: the LikeResult of one videos().rate() call that returned or
\* raised HttpError (any other exception is not caught there)
like_video(video, outcome) ==
  IF outcome.kind = "ok"
  THEN LikeResult(video.id, TRUE, None, FALSE)
  ELSE LikeResult(video.id, FALSE, Some(outcome.text),
                  is_quota_exceeded_error(outcome.text))


(***************************************************************************)
(* State of one call of like_all_channel_videos.                           *)
(***************************************************************************)
VARIABLES
  pc,            \* "find_channel", "fetch", "like", "done" (returned), "raised"
  handle,        \* argument: the handle as passed in
  has_callback,  \* argument: on_progress is not None
  strategyIdx,   \* find_channel: index of the next lookup strategy
  channel,       \* like_all_channel_videos: channel (Optional[Channel])
  video_ids,     \* accumulate_videos: acc[0]
  page_token,    \* accumulate_videos: acc[1] (Optional[token])
  iter,          \* reduce: how many elements of range(100) were consumed
  videos,        \* like_all_channel_videos: videos
  results,       \* like_videos / like_videos_with_callback: results
  retval,        \* the returned triple (Optional)
  exc,           \* the exception that left the call (Optional[origin])
  \* what the API saw and answered
  lookupLog,     \* channels().list requests, each with its answer
  pageRequests,  \* number of search().list requests issued
  lastCursor,    \* nextPageToken of the last search answer
  firstEnd,      \* number of the first search answer without a cursor (0: none)
  idsAtEnd,      \* ids delivered by the answers up to and including firstEnd
  allIds,        \* ids delivered by all search answers so far
  faults,        \* API operations that raised something other than a per-video HttpError
  events         \* like requests (with outcome) and callback invocations, in order

\* clean_handle taken alone: its argument and what it returned
VARIABLES
  cleanIn,       \* the handle string h
  cleanOut       \* Optional: clean_handle(h), clean_handle('@' + h),
                 \* clean_handle(clean_handle(h))

vars == <<pc, handle, has_callback, strategyIdx, channel, video_ids, page_token,
          iter, videos, results, retval, exc, lookupLog, pageRequests,
          lastCursor, firstEnd, idsAtEnd, allIds, faults, events>>

apiVars == <<lookupLog, pageRequests, lastCursor, firstEnd, idsAtEnd, allIds,
             faults, events>>

(***************************************************************************)
(* The web front-end (src/app.py).                                         *)
(*                                                                         *)
(* progress_manager holds the one ProgressState of the process. Each       *)
(* /start request resets it and starts a worker thread that runs           *)
(* run_liking_workflow. Every get_state and every update_state takes the   *)
(* lock on its own, so each is a step of its own. What /progress returns   *)
(* at any moment is the value of snapshot at that moment.                  *)
(*                                                                         *)
(* Inside a worker, like_all_channel_videos is the code modelled above; a  *)
(* worker keeps of it what run_liking_workflow uses: whether a channel was *)
(* found, len(videos), the results so far (how many, how many successful,  *)
(* whether the last is quota-exceeded), and the on_progress calls.         *)
(***************************************************************************)
VARIABLES
  snapshot,      \* progress_manager._state
  wk,            \* wk[r]: the worker thread of the r-th /start request
  lastWriter,    \* the run whose update_state wrote snapshot (0: a reset)
  polled         \* the last response of GET /progress

webVars == <<snapshot, wk, lastWriter, polled>>

\* the /start requests of the model, in the order they are handled
Runs == {1, 2}

\* a worker attempts at most MaxRunVideos videos
MaxRunVideos == 2

\* request.json channel_username (default '@the_hampter')
ChannelUsername == "@the_hampter"
\* the id of the channel found for it
FoundChannelId == "UC1"
\* the id of the video at position i of the enumeration
VideoIdAt(i) == IF i = 1 THEN "v1" ELSE IF i = 2 THEN "v2" ELSE "v3"

\* the answers to videos().rate() that a worker meets
RunRateOutcomes ==
  { [kind |-> "ok"], [kind |-> "raise"],
    [kind |-> "HttpError", text |-> TextForbidden],
    [kind |-> "HttpError", text |-> TextReason] }

\* the f-strings of app.py: which text, and the values put into it
Message(text, user, a, b) == [text |-> text, user |-> user, a |-> a, b |-> b]
MsgReady == Message("Ready to start", "", 0, 0)
MsgAuthenticating == Message("Authenticating with YouTube...", "", 0, 0)
MsgFinding(user) == Message("Finding channel: {channel_username}", user, 0, 0)
MsgLiked(current, total) ==
  Message("Liked video {current} of {total}", "", current, total)
MsgNotFound(user) == Message("Channel not found: {channel_username}", user, 0, 0)
MsgCompleted(successful, total) ==
  Message("Successfully liked {successful}/{len(videos)} videos!", "",
          successful, total)
MsgError(e) == Message("Error: {str(e)}", e, 0, 0)

\* ProgressState
ProgressState(status, message, total_videos, liked_videos, current_video_id, channel_id, channel_name) ==
  [status |-> status, message |-> message, total_videos |-> total_videos,
   liked_videos |-> liked_videos, current_video_id |-> current_video_id,
   channel_id |-> channel_id, channel_name |-> channel_name]

\* ProgressState.initial()
initial == ProgressState("idle", MsgReady, 0, 0, "", "", "")

with_status(st, status, message) ==
  ProgressState(status, message, st.total_videos, st.liked_videos,
                st.current_video_id, st.channel_id, st.channel_name)

with_channel(st, channel_id, channel_name) ==
  ProgressState(st.status, st.message, st.total_videos, st.liked_videos,
                st.current_video_id, channel_id, channel_name)

with_videos_resets_liked(st, total) ==
  ProgressState(st.status, st.message, total, 0,
                st.current_video_id, st.channel_id, st.channel_name)

with_videos(st, total) ==
  ProgressState(st.status, st.message, total, st.liked_videos,
                st.current_video_id, st.channel_id, st.channel_name)

with_progress(st, liked, video_id) ==
  ProgressState(st.status, st.message, st.total_videos, liked,
                video_id, st.channel_id, st.channel_name)

\* a worker thread that was not started
WorkerIdle ==
  [pc |-> "idle", state |-> None, found |-> FALSE, n |-> 0, i |-> 0,
   successful |-> 0, quota |-> FALSE, err |-> ""]

\* no /start request was handled
WebIdle ==
  /\ snapshot = initial
  /\ wk = [r \in Runs |-> WorkerIdle]
  /\ lastWriter = 0
  /\ polled = None

(***************************************************************************)
(* The desktop front-end (src/gui.py).                                     *)
(*                                                                         *)
(* The main thread handles start clicks and, every 100 ms, drains          *)
(* message_queue in _process_messages; each accepted click starts a worker *)
(* thread that runs _run_workflow and talks to the main thread through the *)
(* queue. Of the display, the status text and the two statistics are kept; *)
(* 'log', 'progress' and 'channel_link' messages change only the log, the  *)
(* progress bar and the link button, and are left out of the queue.        *)
(***************************************************************************)
VARIABLES
  is_running,     \* self.is_running
  message_queue,  \* self.message_queue
  status_label,   \* the text of self.status_label
  total_label,    \* the number shown by self.total_label
  liked_label,    \* the number shown by self.liked_label
  draining,       \* _process_messages is inside its while loop
  gw              \* gw[w]: the worker thread of the w-th accepted click

guiVars ==
  <<is_running, message_queue, status_label, total_label, liked_label,
    draining, gw>>

\* the worker threads of the model, in the order they are started
GuiRuns == {1, 2}

\* the tuples put on the queue: (msg_type, data)
GuiMessage(kind, text, a, b) == [kind |-> kind, text |-> text, a |-> a, b |-> b]
StatusMessage(text, a, b) == GuiMessage("status", text, a, b)
StatsMessage(total, liked) == GuiMessage("stats", "", total, liked)
ErrorMessage(text) == GuiMessage("error", text, 0, 0)
CompleteMessage == GuiMessage("complete", "", 0, 0)

\* a status text (without its emoji), with the values put into it
StatusText(text, a, b) == [text |-> text, a |-> a, b |-> b]

GuiWorkerIdle ==
  [pc |-> "idle", found |-> FALSE, n |-> 0, i |-> 0, quota |-> FALSE]

\* HampterLikerGUI.__init__
GuiIdle ==
  /\ is_running = FALSE
  /\ message_queue = <<>>
  /\ status_label = StatusText("Ready to start", 0, 0)
  /\ total_label = 0
  /\ liked_label = 0
  /\ draining = FALSE
  /\ gw = [w \in GuiRuns |-> GuiWorkerIdle]

cleanVars == <<cleanIn, cleanOut>>

\* no call of clean_handle alone is under way
CleanIdle ==
  /\ cleanIn = <<>>
  /\ cleanOut = None

Init ==
  /\ CleanIdle
  /\ WebIdle
  /\ GuiIdle
  /\ pc = "find_channel"
  /\ handle \in Handles
  /\ has_callback \in BOOLEAN
  /\ strategyIdx = 1
  /\ channel = None
  /\ video_ids = <<>>
  /\ page_token = None
  /\ iter = 0
  /\ videos = <<>>
  /\ results = <<>>
  /\ retval = None
  /\ exc = None
  /\ lookupLog = <<>>
  /\ pageRequests = 0
  /\ lastCursor = None
  /\ firstEnd = 0
  /\ idsAtEnd = <<>>
  /\ allIds = <<>>
  /\ faults = {}
  /\ events = <<>>

(***************************************************************************)
(* find_channel: one iteration of "for strategy in lookup_strategies",     *)
(* with the return that follows it (a Channel on a match, None after the   *)
(* last strategy, on which like_all_channel_videos returns (None, [], [])).*)
(***************************************************************************)
FindChannelNoShortCircuit ==
  /\ pc = "find_channel"
  /\ \E resp \in LookupResponses :
       LET cleaned == clean_handle(handle)
           result == Strategy(strategyIdx, resp)
       IN /\ lookupLog' = Append(lookupLog,
                 [param |-> StrategyParam(strategyIdx), value |-> cleaned,
                  resp |-> resp])
          /\ faults' = IF resp.kind = "raise"
                       THEN faults \cup {StrategyParam(strategyIdx)} ELSE faults
          /\ IF strategyIdx < NumStrategies
             THEN /\ strategyIdx' = strategyIdx + 1
                  /\ channel' = IF IsSome(result)
                                THEN Some(Channel(result.val.id, handle))
                                ELSE channel
                  /\ UNCHANGED <<pc, retval>>
             ELSE IF IsSome(result) \/ IsSome(channel)
             THEN /\ channel' = IF IsSome(result)
                                THEN Some(Channel(result.val.id, handle))
                                ELSE channel
                  /\ pc' = "fetch"
                  /\ UNCHANGED <<strategyIdx, retval>>
             ELSE /\ pc' = "done"
                  /\ retval' = Some(<<None, <<>>, <<>>>>)
                  /\ UNCHANGED <<strategyIdx, channel>>
  /\ UNCHANGED <<handle, has_callback, video_ids, page_token, iter, videos,
                 results, exc, pageRequests, lastCursor, firstEnd, idsAtEnd,
                 allIds, events>>

FindChannelNoEarlyReturn ==
  /\ pc = "find_channel"
  /\ \E resp \in LookupResponses :
       LET cleaned == clean_handle(handle)
           result == Strategy(strategyIdx, resp)
       IN /\ lookupLog' = Append(lookupLog,
                 [param |-> StrategyParam(strategyIdx), value |-> cleaned,
                  resp |-> resp])
          /\ faults' = IF resp.kind = "raise"
                       THEN faults \cup {StrategyParam(strategyIdx)} ELSE faults
          /\ IF IsSome(result)
             THEN /\ channel' = Some(Channel(result.val.id, handle))
                  /\ pc' = "fetch"
                  /\ UNCHANGED <<strategyIdx, retval>>
             ELSE IF strategyIdx < NumStrategies
             THEN /\ strategyIdx' = strategyIdx + 1
                  /\ UNCHANGED <<pc, channel, retval>>
             ELSE /\ pc' = "fetch"
                  /\ UNCHANGED <<strategyIdx, channel, retval>>
  /\ UNCHANGED <<handle, has_callback, video_ids, page_token, iter, videos,
                 results, exc, pageRequests, lastCursor, firstEnd, idsAtEnd,
                 allIds, events>>


FindChannelStep ==
  /\ pc = "find_channel"
  /\ \E resp \in LookupResponses :
       LET cleaned == clean_handle(handle)
           result == Strategy(strategyIdx, resp)
       IN /\ lookupLog' = Append(lookupLog,
                 [param |-> StrategyParam(strategyIdx), value |-> cleaned,
                  resp |-> resp])
          /\ faults' = IF resp.kind = "raise"
                       THEN faults \cup {StrategyParam(strategyIdx)} ELSE faults
          /\ IF IsSome(result)
             THEN /\ channel' = Some(Channel(result.val.id, handle))
                  /\ pc' = "fetch"
                  /\ UNCHANGED <<strategyIdx, retval>>
             ELSE IF strategyIdx < NumStrategies
             THEN /\ strategyIdx' = strategyIdx + 1
                  /\ UNCHANGED <<pc, channel, retval>>
             ELSE /\ pc' = "done"
                  /\ retval' = Some(<<None, <<>>, <<>>>>)
                  /\ UNCHANGED <<strategyIdx, channel>>
  /\ UNCHANGED <<handle, has_callback, video_ids, page_token, iter, videos,
                 results, exc, pageRequests, lastCursor, firstEnd, idsAtEnd,
                 allIds, events>>


(***************************************************************************)
(* fetch_all_video_ids: one call of accumulate_videos by reduce.           *)
(***************************************************************************)
\* the answers the API may give to the next search request
NextPageResponses ==
  IF pageRequests < MaxTurns
  THEN PageResponses(MaxVideos - Len(allIds))
  ELSE { [kind |-> "ok", items |-> <<>>, nextPageToken |-> lastCursor] }

FetchStepSwallowsErrors ==
  /\ pc = "fetch"
  /\ iter < MaxPages
  /\ iter' = iter + 1
  /\ IF AlreadyFinished(video_ids, page_token)
     THEN UNCHANGED <<pc, video_ids, page_token, exc, pageRequests, lastCursor,
                      firstEnd, idsAtEnd, allIds, faults>>
     ELSE \E response \in NextPageResponses :
            /\ pageRequests' = pageRequests + 1
            /\ IF response.kind = "raise"
               THEN /\ faults' = faults \cup {"search"}
                    /\ page_token' = None
                    /\ UNCHANGED <<pc, exc, video_ids, lastCursor, firstEnd,
                                   idsAtEnd, allIds>>
               ELSE LET new_ids == extract_video_ids(response)
                        next_token == response.nextPageToken
                    IN /\ video_ids' = video_ids \o new_ids
                       /\ page_token' = next_token
                       /\ lastCursor' = response.nextPageToken
                       /\ allIds' = allIds \o new_ids
                       /\ IF firstEnd = 0 /\ response.nextPageToken = None
                          THEN /\ firstEnd' = pageRequests + 1
                               /\ idsAtEnd' = allIds \o new_ids
                          ELSE UNCHANGED <<firstEnd, idsAtEnd>>
                       /\ UNCHANGED <<pc, exc, faults>>
  /\ UNCHANGED <<handle, has_callback, strategyIdx, channel, videos, results,
                 retval, lookupLog, events>>

FetchStepLikesEagerly ==
  /\ pc = "fetch"
  /\ iter < MaxPages
  /\ iter' = iter + 1
  /\ IF AlreadyFinished(video_ids, page_token)
     THEN UNCHANGED <<pc, video_ids, page_token, exc, pageRequests, lastCursor,
                      firstEnd, idsAtEnd, allIds, faults, events>>
     ELSE \E response \in NextPageResponses :
            /\ pageRequests' = pageRequests + 1
            /\ IF response.kind = "raise"
               THEN /\ pc' = "raised"
                    /\ exc' = Some("search")
                    /\ faults' = faults \cup {"search"}
                    /\ UNCHANGED <<video_ids, page_token, lastCursor, firstEnd,
                                   idsAtEnd, allIds, events>>
               ELSE LET new_ids == extract_video_ids(response)
                        next_token == response.nextPageToken
                    IN /\ video_ids' = video_ids \o new_ids
                       /\ page_token' = next_token
                       /\ lastCursor' = response.nextPageToken
                       /\ allIds' = allIds \o new_ids
                       /\ IF firstEnd = 0 /\ response.nextPageToken = None
                          THEN /\ firstEnd' = pageRequests + 1
                               /\ idsAtEnd' = allIds \o new_ids
                          ELSE UNCHANGED <<firstEnd, idsAtEnd>>
                       /\ events' = events \o
                            [i \in 1..Len(new_ids) |->
                               [type |-> "rate", id |-> new_ids[i],
                                outcome |-> [kind |-> "ok"]]]
                       /\ UNCHANGED <<pc, exc, faults>>
  /\ UNCHANGED <<handle, has_callback, strategyIdx, channel, videos, results,
                 retval, lookupLog>>

FetchStep ==
  /\ pc = "fetch"
  /\ iter < MaxPages
  /\ iter' = iter + 1
  /\ IF AlreadyFinished(video_ids, page_token)
     THEN UNCHANGED <<pc, video_ids, page_token, exc, pageRequests, lastCursor,
                      firstEnd, idsAtEnd, allIds, faults>>
     ELSE \E response \in NextPageResponses :
            /\ pageRequests' = pageRequests + 1
            /\ IF response.kind = "raise"
               THEN /\ pc' = "raised"
                    /\ exc' = Some("search")
                    /\ faults' = faults \cup {"search"}
                    /\ UNCHANGED <<video_ids, page_token, lastCursor, firstEnd,
                                   idsAtEnd, allIds>>
               ELSE LET new_ids == extract_video_ids(response)
                        next_token == response.nextPageToken
                    IN /\ video_ids' = video_ids \o new_ids
                       /\ page_token' = next_token
                       /\ lastCursor' = response.nextPageToken
                       /\ allIds' = allIds \o new_ids
                       /\ IF firstEnd = 0 /\ response.nextPageToken = None
                          THEN /\ firstEnd' = pageRequests + 1
                               /\ idsAtEnd' = allIds \o new_ids
                          ELSE UNCHANGED <<firstEnd, idsAtEnd>>
                       /\ UNCHANGED <<pc, exc, faults>>
  /\ UNCHANGED <<handle, has_callback, strategyIdx, channel, videos, results,
                 retval, lookupLog, events>>

\* reduce is exhausted: fetch_all_video_ids returns final_ids, and
\* fetch_channel_videos wraps them; the locals of the enumeration are gone
FetchReturn ==
  /\ pc = "fetch"
  /\ iter = MaxPages
  /\ videos' = [i \in 1..Len(video_ids) |-> Video(video_ids[i])]
  /\ video_ids' = <<>>
  /\ page_token' = None
  /\ iter' = 0
  /\ pc' = "like"
  /\ UNCHANGED <<handle, has_callback, strategyIdx, channel, results, retval,
                 exc>>
  /\ UNCHANGED apiVars

(***************************************************************************)
(* like_videos_with_callback and like_videos: one iteration of the loop.   *)
(***************************************************************************)
Last(s) == s[Len(s)]

\* enumerate(videos, 1)
EnumerateStartZero == 1 - 1
EnumerateStart == 1

\* "if result.quota_exceeded: ... break"
ShouldBreakNever(result) == FALSE
ShouldBreak(result) == result.quota_exceeded

Broken == results # <<>> /\ ShouldBreak(Last(results))

\* like_all_channel_videos: "if on_progress:" selects the callback path
UsesCallbackPathAlways == TRUE
UsesCallbackPath == has_callback

RateEvent(video, outcome) ==
  [type |-> "rate", id |-> video.id, outcome |-> outcome]
CallbackEvent(current, total, video) ==
  [type |-> "callback", current |-> current, total |-> total, video |-> video]

LikeCallbackStepNoCallbackOnFailure ==
  /\ pc = "like"
  /\ UsesCallbackPath
  /\ Len(results) < Len(videos)
  /\ ~Broken
  /\ \E outcome \in RateOutcomes :
       LET total == Len(videos)
           i == Len(results) + EnumerateStart
           video == videos[Len(results) + 1]
       IN IF outcome.kind = "raise"
          THEN /\ pc' = "raised"
               /\ exc' = Some("rate")
               /\ faults' = faults \cup {"rate"}
               /\ events' = Append(events, RateEvent(video, outcome))
               /\ UNCHANGED results
          ELSE /\ results' = Append(results, like_video(video, outcome))
               /\ events' = IF outcome.kind = "ok"
                            THEN events \o <<RateEvent(video, outcome),
                                               CallbackEvent(i, total, video)>>
                            ELSE Append(events, RateEvent(video, outcome))
               /\ UNCHANGED <<pc, exc, faults>>
  /\ UNCHANGED <<handle, has_callback, strategyIdx, channel, video_ids,
                 page_token, iter, videos, retval, lookupLog, pageRequests,
                 lastCursor, firstEnd, idsAtEnd, allIds>>

LikeCallbackStep ==
  /\ pc = "like"
  /\ UsesCallbackPath
  /\ Len(results) < Len(videos)
  /\ ~Broken
  /\ \E outcome \in RateOutcomes :
       LET total == Len(videos)
           i == Len(results) + EnumerateStart
           video == videos[Len(results) + 1]
       IN IF outcome.kind = "raise"
          THEN /\ pc' = "raised"
               /\ exc' = Some("rate")
               /\ faults' = faults \cup {"rate"}
               /\ events' = Append(events, RateEvent(video, outcome))
               /\ UNCHANGED results
          ELSE /\ results' = Append(results, like_video(video, outcome))
               /\ events' = events \o <<RateEvent(video, outcome),
                                         CallbackEvent(i, total, video)>>
               /\ UNCHANGED <<pc, exc, faults>>
  /\ UNCHANGED <<handle, has_callback, strategyIdx, channel, video_ids,
                 page_token, iter, videos, retval, lookupLog, pageRequests,
                 lastCursor, firstEnd, idsAtEnd, allIds>>

\* [like_video(youtube, video) for video in videos]
LikeBulkStep ==
  /\ pc = "like"
  /\ ~UsesCallbackPath
  /\ Len(results) < Len(videos)
  /\ \E outcome \in RateOutcomes :
       LET video == videos[Len(results) + 1]
       IN IF outcome.kind = "raise"
          THEN /\ pc' = "raised"
               /\ exc' = Some("rate")
               /\ faults' = faults \cup {"rate"}
               /\ events' = Append(events, RateEvent(video, outcome))
               /\ UNCHANGED results
          ELSE /\ results' = Append(results, like_video(video, outcome))
               /\ events' = Append(events, RateEvent(video, outcome))
               /\ UNCHANGED <<pc, exc, faults>>
  /\ UNCHANGED <<handle, has_callback, strategyIdx, channel, video_ids,
                 page_token, iter, videos, retval, lookupLog, pageRequests,
                 lastCursor, firstEnd, idsAtEnd, allIds>>

\* the loop is over: like_all_channel_videos logs the summary and returns
\* (channel, videos, results)
LikeReturn ==
  /\ pc = "like"
  /\ \/ Len(results) = Len(videos)
     \/ UsesCallbackPath /\ Broken
  /\ pc' = "done"
  /\ retval' = Some(<<channel, videos, results>>)
  /\ UNCHANGED <<handle, has_callback, strategyIdx, channel, video_ids,
                 page_token, iter, videos, results, exc>>
  /\ UNCHANGED apiVars

Next ==
  \/ FindChannelStep /\ UNCHANGED <<cleanVars, webVars, guiVars>>
  \/ FetchStep /\ UNCHANGED <<cleanVars, webVars, guiVars>>
  \/ FetchReturn /\ UNCHANGED <<cleanVars, webVars, guiVars>>
  \/ LikeCallbackStep /\ UNCHANGED <<cleanVars, webVars, guiVars>>
  \/ LikeBulkStep /\ UNCHANGED <<cleanVars, webVars, guiVars>>
  \/ LikeReturn /\ UNCHANGED <<cleanVars, webVars, guiVars>>

Spec == Init /\ [][Next]_vars

(***************************************************************************)
(* clean_handle as a function of its argument: the handle is drawn from    *)
(* the strings over '@' and two other characters, and one step applies     *)
(* clean_handle to it, to it with an '@' put in front, and to its own      *)
(* result.                                                                 *)
(***************************************************************************)
MaxHandleLen == 4
HandleChars == {"@", "a", "b"}

\* no call of like_all_channel_videos is under way
CoreIdle ==
  /\ pc = "find_channel"
  /\ handle = <<>>
  /\ has_callback = FALSE
  /\ strategyIdx = 1
  /\ channel = None
  /\ video_ids = <<>>
  /\ page_token = None
  /\ iter = 0
  /\ videos = <<>>
  /\ results = <<>>
  /\ retval = None
  /\ exc = None
  /\ lookupLog = <<>>
  /\ pageRequests = 0
  /\ lastCursor = None
  /\ firstEnd = 0
  /\ idsAtEnd = <<>>
  /\ allIds = <<>>
  /\ faults = {}
  /\ events = <<>>

InitClean ==
  /\ CoreIdle
  /\ WebIdle
  /\ GuiIdle
  /\ cleanIn \in SeqsUpTo(HandleChars, MaxHandleLen)
  /\ cleanOut = None

CleanApply ==
  /\ cleanOut = None
  /\ cleanOut' = Some([plain |-> clean_handle(cleanIn),
                       prefixed |-> clean_handle(<<"@">> \o cleanIn),
                       twice |-> clean_handle(clean_handle(cleanIn))])
  /\ UNCHANGED cleanIn
  /\ UNCHANGED <<vars, webVars, guiVars>>

NextClean == CleanApply

SpecClean == InitClean /\ [][NextClean]_<<vars, cleanVars, webVars, guiVars>>


(***************************************************************************)
(* The worker thread of the web front-end: run_liking_workflow.            *)
(***************************************************************************)
InFlight(r) == wk[r].pc \notin {"idle", "end"}

\* state = progress_manager.get_state()
GetState(r, from, to) ==
  /\ wk[r].pc = from
  /\ wk' = [wk EXCEPT ![r].pc = to, ![r].state = Some(snapshot)]
  /\ UNCHANGED <<snapshot, lastWriter>>

\* progress_manager.update_state(new_state); the local state is dead after it
UpdateState(r, from, to, new_state) ==
  /\ wk[r].pc = from
  /\ snapshot' = new_state
  /\ lastWriter' = r
  /\ wk' = [wk EXCEPT ![r].pc = to, ![r].state = None]

\* /start: progress_manager.reset(), then the worker thread is started
StartLikingGuarded(r) ==
  /\ wk[r].pc = "idle"
  /\ \A q \in Runs : q < r => wk[q].pc = "end"
  /\ snapshot' = initial
  /\ lastWriter' = 0
  /\ wk' = [wk EXCEPT ![r].pc = "auth_get"]

StartLiking(r) ==
  /\ wk[r].pc = "idle"
  /\ \A q \in Runs : q < r => wk[q].pc # "idle"
  /\ snapshot' = initial
  /\ lastWriter' = 0
  /\ wk' = [wk EXCEPT ![r].pc = "auth_get"]

\* run_liking_workflow, "# Authentication"
AuthGet(r) == GetState(r, "auth_get", "auth_put")
AuthPut(r) ==
  UpdateState(r, "auth_put", "auth_call",
    with_channel(with_status(wk[r].state.val, "authenticating",
                             MsgAuthenticating),
                 "", ChannelUsername))

\* youtube = get_authenticated_service(youtube_config): returns or raises
AuthCall(r) ==
  /\ wk[r].pc = "auth_call"
  /\ \/ wk' = [wk EXCEPT ![r].pc = "fetch_get"]
     \/ wk' = [wk EXCEPT ![r].pc = "exc_get", ![r].err = "auth"]
  /\ UNCHANGED <<snapshot, lastWriter>>

\* run_liking_workflow, "# Fetching"
FetchGet(r) == GetState(r, "fetch_get", "fetch_put")
FetchPut(r) ==
  UpdateState(r, "fetch_put", "workflow",
    with_status(wk[r].state.val, "fetching", MsgFinding(ChannelUsername)))

\* like_all_channel_videos up to the like loop: no channel (it returns
\* (None, [], [])), a search request that raises, or a channel with n videos
Resolve(r) ==
  /\ wk[r].pc = "workflow"
  /\ \/ wk' = [wk EXCEPT ![r].pc = "nf_get"]
     \/ wk' = [wk EXCEPT ![r].pc = "exc_get", ![r].err = "search"]
     \/ \E n \in 0..MaxRunVideos :
          wk' = [wk EXCEPT ![r].pc = IF n = 0 THEN "info_get" ELSE "like",
                           ![r].found = TRUE, ![r].n = n]
  /\ UNCHANGED <<snapshot, lastWriter>>

\* like_videos_with_callback: result = like_video(youtube, video);
\* results.append(result)
LikeOne(r) ==
  /\ wk[r].pc = "like"
  /\ \E outcome \in RunRateOutcomes :
       IF outcome.kind = "raise"
       THEN wk' = [wk EXCEPT ![r].pc = "exc_get", ![r].err = "rate"]
       ELSE LET result == like_video(Video(VideoIdAt(wk[r].i + 1)), outcome)
            IN wk' = [wk EXCEPT
                 ![r].pc = "cb_get",
                 ![r].i = @ + 1,
                 ![r].successful = IF result.success THEN @ + 1 ELSE @,
                 ![r].quota = ShouldBreak(result)]
  /\ UNCHANGED <<snapshot, lastWriter>>

\* on_progress(current, total, video), then the quota test of the loop
CallbackGet(r) == GetState(r, "cb_get", "cb_put")
CallbackPut(r) ==
  LET current == wk[r].i
      total == wk[r].n
      video == Video(VideoIdAt(wk[r].i))
      new_state == with_progress(wk[r].state.val, current, video.id)
  IN UpdateState(r, "cb_put",
       IF wk[r].quota \/ wk[r].i = wk[r].n THEN "info_get" ELSE "like",
       ProgressState("liking", MsgLiked(current, total),
                     new_state.total_videos, current, video.id,
                     new_state.channel_id, new_state.channel_name))

\* "if not channel:"
NotFoundGet(r) == GetState(r, "nf_get", "nf_put")
NotFoundPutNothing(r) ==
  /\ wk[r].pc = "nf_put"
  /\ wk' = [wk EXCEPT ![r].pc = "end", ![r].state = None]
  /\ UNCHANGED <<snapshot, lastWriter>>
NotFoundPut(r) ==
  UpdateState(r, "nf_put", "end",
    with_status(wk[r].state.val, "error", MsgNotFound(ChannelUsername)))

\* "# Update with channel info"
InfoGet(r) == GetState(r, "info_get", "info_put")
InfoPut(r) ==
  UpdateState(r, "info_put", "done_get",
    with_videos(with_channel(wk[r].state.val, FoundChannelId, ChannelUsername),
                wk[r].n))

\* "# Completion"
DoneGet(r) == GetState(r, "done_get", "done_put")
DonePut(r) ==
  UpdateState(r, "done_put", "end",
    with_status(wk[r].state.val, "completed",
                MsgCompleted(wk[r].successful, wk[r].n)))

\* "except Exception as e:"
ExceptGet(r) == GetState(r, "exc_get", "exc_put")
ExceptPut(r) ==
  UpdateState(r, "exc_put", "end",
    with_status(wk[r].state.val, "error", MsgError(wk[r].err)))

\* GET /progress: the response is progress_manager.get_state().to_dict()
GetProgress ==
  /\ polled' = Some(snapshot)
  /\ UNCHANGED <<snapshot, wk, lastWriter>>

WorkerStep(r) ==
  \/ AuthGet(r) \/ AuthPut(r) \/ AuthCall(r)
  \/ FetchGet(r) \/ FetchPut(r)
  \/ Resolve(r) \/ LikeOne(r)
  \/ CallbackGet(r) \/ CallbackPut(r)
  \/ NotFoundGet(r) \/ NotFoundPut(r)
  \/ InfoGet(r) \/ InfoPut(r)
  \/ DoneGet(r) \/ DonePut(r)
  \/ ExceptGet(r) \/ ExceptPut(r)

allVars == <<vars, cleanVars, webVars, guiVars>>

\* a step of worker r; nothing else moves
WorkerRun(r) == WorkerStep(r) /\ UNCHANGED <<vars, cleanVars, guiVars, polled>>

InitWeb ==
  /\ CoreIdle
  /\ CleanIdle
  /\ WebIdle
  /\ GuiIdle

\* /start requests handled also while a worker is running; what /progress
\* would answer in a state is the value of snapshot in it
NextWeb ==
  \/ \E r \in Runs : StartLiking(r) /\ UNCHANGED <<vars, cleanVars, guiVars, polled>>
  \/ \E r \in Runs : WorkerRun(r)

SpecWeb == InitWeb /\ [][NextWeb]_allVars

\* a single run: one /start request, and the page polling /progress
NextWebSingle ==
  \/ StartLiking(1) /\ UNCHANGED <<vars, cleanVars, guiVars, polled>>
  \/ WorkerRun(1)
  \/ GetProgress /\ UNCHANGED <<vars, cleanVars, guiVars>>

SpecWebSingle == InitWeb /\ [][NextWebSingle]_allVars

\* the worker thread is scheduled as long as it has a step to take; every
\* call it makes returns or raises
SpecWebSingleFair == SpecWebSingle /\ WF_allVars(WorkerRun(1))

(***************************************************************************)
(* Vocabulary of the properties.                                           *)
(***************************************************************************)
IsRate(e) == e.type = "rate"
IsCallback(e) == e.type = "callback"
RateEvents == SelectSeq(events, IsRate)
CallbackEvents == SelectSeq(events, IsCallback)

\* the API rejected the like with an HttpError whose text carries a quota marker
QuotaFlagged(o) == o.kind = "HttpError" /\ o.text \in QuotaTexts
\* the API rejected the like with an HttpError whose text carries none
PlainFailure(o) == o.kind = "HttpError" /\ o.text \in NonQuotaTexts

NoQuotaFlagged ==
  \A i \in 1..Len(RateEvents) : ~QuotaFlagged(RateEvents[i].outcome)

\* a channels().list answer that holds no channel
NoMatch(resp) == resp.kind = "raise" \/ resp.items = <<>>

Returned == pc = "done" /\ IsSome(retval)
ReturnedResults == retval.val[3]

(***************************************************************************)
(* C1: with a progress callback, when the like request of position k is    *)
(* the first to fail with a quota-flagged error, the result list has       *)
(* exactly k elements (also as returned), the callback was invoked exactly *)
(* k times, and no like request is ever issued for positions k+1..N.       *)
(***************************************************************************)
C1_QuotaStopsCallbackLoop ==
  has_callback =>
    \A k \in 1..Len(RateEvents) :
      ( /\ QuotaFlagged(RateEvents[k].outcome)
        /\ \A j \in 1..(k - 1) : ~QuotaFlagged(RateEvents[j].outcome) )
      => /\ Len(RateEvents) = k
         /\ Len(results) = k
         /\ Len(CallbackEvents) = k
         /\ \A j \in 1..k : RateEvents[j].id = videos[j].id
         /\ (Returned => Len(ReturnedResults) = k)

C1_Witness ==
  /\ Returned
  /\ has_callback
  /\ Len(videos) = 2
  /\ Len(RateEvents) = 1
  /\ QuotaFlagged(RateEvents[1].outcome)
  /\ Len(ReturnedResults) = 1

(***************************************************************************)
(* C2: with a progress callback and no quota-flagged like error, the j-th  *)
(* callback invocation carries (j, N, video j), and the call returns       *)
(* exactly N results after exactly N callback invocations.                 *)
(***************************************************************************)
C2_CallbackCountsUp ==
  (has_callback /\ NoQuotaFlagged) =>
    /\ \A j \in 1..Len(CallbackEvents) :
         /\ CallbackEvents[j].current = j
         /\ CallbackEvents[j].total = Len(videos)
         /\ CallbackEvents[j].video = videos[j]
    /\ (Returned /\ IsSome(channel) =>
          /\ Len(ReturnedResults) = Len(videos)
          /\ Len(CallbackEvents) = Len(videos))

C2_Witness ==
  /\ Returned
  /\ has_callback
  /\ Len(videos) = 2
  /\ Len(CallbackEvents) = 2
  /\ RateEvents[1].outcome.kind = "ok"
  /\ PlainFailure(RateEvents[2].outcome)

(***************************************************************************)
(* C3: a like request that fails with an HttpError whose text carries no   *)
(* quota marker is recorded with success=false, quota_exceeded=false and   *)
(* the error text, and does not stop the loop: the next video, if there is *)
(* one, is attempted before the call returns, and so is every later video  *)
(* unless the callback path meets a quota-flagged error first.             *)
(***************************************************************************)
C3_PlainFailureRecordedLoopGoesOn ==
  \A i \in 1..Len(RateEvents) :
    PlainFailure(RateEvents[i].outcome) =>
      /\ Len(results) >= i
      /\ results[i] = [video_id |-> videos[i].id, success |-> FALSE,
                       error |-> Some(RateEvents[i].outcome.text),
                       quota_exceeded |-> FALSE]
      /\ (Returned /\ i < Len(videos) => Len(RateEvents) > i)
      /\ (Returned /\ (~has_callback \/ NoQuotaFlagged) =>
            /\ Len(RateEvents) = Len(videos)
            /\ \A j \in (i + 1)..Len(videos) : RateEvents[j].id = videos[j].id)

C3_Witness ==
  /\ Returned
  /\ Len(videos) = 2
  /\ Len(RateEvents) = 2
  /\ RateEvents[1].outcome = [kind |-> "HttpError", text |-> TextNearMiss]
  /\ RateEvents[2].outcome.kind = "ok"

(***************************************************************************)
(* C4: the lookup by username is issued only as the second lookup, after a *)
(* lookup by handle that returned no match; once the lookup by handle has  *)
(* returned an item, no lookup by username is issued.                      *)
(***************************************************************************)
C4_UsernameOnlyAfterHandleMiss ==
  /\ \A i \in 1..Len(lookupLog) :
       lookupLog[i].param = "forUsername" =>
         /\ i = 2
         /\ lookupLog[1].param = "forHandle"
         /\ NoMatch(lookupLog[1].resp)
  /\ \A i \in 1..Len(lookupLog) :
       (lookupLog[i].param = "forHandle" /\ ~NoMatch(lookupLog[i].resp)) =>
         Len(lookupLog) = 1

C4_Witness ==
  /\ pc = "done"
  /\ Len(lookupLog) = 1
  /\ lookupLog[1].param = "forHandle"
  /\ Len(lookupLog[1].resp.items) = 2

(***************************************************************************)
(* C5: when both lookups yield no match, like_all_channel_videos returns   *)
(* (None, [], []) without raising, having issued no search request and no  *)
(* like request and never having invoked the callback.                     *)
(***************************************************************************)
BothLookupsMissed ==
  /\ Len(lookupLog) = 2
  /\ NoMatch(lookupLog[1].resp)
  /\ NoMatch(lookupLog[2].resp)

C5_NotFoundIsEmptyReturn ==
  BothLookupsMissed =>
    /\ pc = "done"
    /\ retval = Some(<<None, <<>>, <<>>>>)
    /\ exc = None
    /\ pageRequests = 0
    /\ events = <<>>

C5_Witness ==
  /\ BothLookupsMissed
  /\ has_callback
  /\ lookupLog[1].resp.kind = "raise"
  /\ lookupLog[2].resp.kind = "ok"
  /\ pc = "done"


(***************************************************************************)
(* C6: fetch_all_video_ids issues no page request after the first answer   *)
(* that omits a continuation cursor (pages with zero items included), and  *)
(* returns exactly the ids of the pages up to and including that answer.   *)
(***************************************************************************)
C6_StopsAtFirstPageWithoutCursor ==
  firstEnd # 0 =>
    /\ pageRequests = firstEnd
    /\ (pc \in {"like", "done"} =>
          videos = [i \in 1..Len(idsAtEnd) |-> Video(idsAtEnd[i])])

(***************************************************************************)
(* C7: one enumeration issues at most 100 page requests and then returns,  *)
(* whatever the API answers.                                               *)
(***************************************************************************)
C7_AtMostHundredPageRequests ==
  /\ pageRequests <= 100
  /\ iter <= 100
  /\ (pc = "fetch" /\ pageRequests = 100 => iter = 100 /\ ENABLED FetchReturn)

C7_Witness ==
  /\ pc = "like"
  /\ pageRequests = 100
  /\ firstEnd = 0
  /\ IsSome(lastCursor)

(***************************************************************************)
(* C8: every LikeResult sequence returned by like_all_channel_videos, with *)
(* or without a progress callback, is no longer than the video sequence    *)
(* and holds no result after a result with quota_exceeded=true.            *)
(***************************************************************************)
C8_ResultsTruncatedAtQuota ==
  (Returned /\ IsSome(channel)) =>
    /\ Len(ReturnedResults) <= Len(videos)
    /\ \A i \in 1..(Len(ReturnedResults) - 1) :
         ~ReturnedResults[i].quota_exceeded

(***************************************************************************)
(* C9: without a progress callback, like_all_channel_videos issues one     *)
(* like request for every enumerated video, in order, and returns exactly  *)
(* N results, also when some request yields a quota-flagged error.         *)
(***************************************************************************)
C9_BulkPathAttemptsEveryVideo ==
  (~has_callback /\ Returned /\ IsSome(channel)) =>
    /\ Len(ReturnedResults) = Len(videos)
    /\ Len(events) = Len(videos)
    /\ \A i \in 1..Len(events) :
         /\ events[i].type = "rate"
         /\ events[i].id = videos[i].id
         /\ ReturnedResults[i].video_id = videos[i].id

C9_Witness ==
  /\ ~has_callback
  /\ Returned
  /\ Len(videos) = 2
  /\ Len(RateEvents) = 2
  /\ QuotaFlagged(RateEvents[1].outcome)
  /\ ReturnedResults[1].quota_exceeded

(***************************************************************************)
(* C10 (as claimed): an error raised by the channel-by-handle lookup, the  *)
(* channel-by-username lookup or a search page request propagates out of   *)
(* like_all_channel_videos as an exception.                                *)
(***************************************************************************)
C10_EveryApiErrorPropagates ==
  (faults \cap {"forHandle", "forUsername", "search"}) # {} => pc = "raised"

(***************************************************************************)
(* C10 (amended): an error raised by a search page request propagates out  *)
(* of like_all_channel_videos as an exception (nothing is returned); an    *)
(* error raised by either channel lookup is caught in the lookup and does  *)
(* not leave the call.                                                     *)
(***************************************************************************)
C10_OnlySearchErrorPropagates ==
  /\ "search" \in faults =>
       /\ pc = "raised"
       /\ exc = Some("search")
       /\ retval = None
  /\ (faults # {} /\ faults \subseteq {"forHandle", "forUsername"}) =>
       /\ pc # "raised"
       /\ exc = None

C10_Witness ==
  /\ "forHandle" \in faults
  /\ "search" \in faults
  /\ pc = "raised"


(***************************************************************************)
(* C11: when the lookup by handle raises or returns no items and the       *)
(* lookup by username then returns items, find_channel yields the Channel  *)
(* whose id is the id of the first item of the username answer and whose   *)
(* handle is the handle as passed in ('@' prefix kept); no Channel is      *)
(* yielded when neither lookup returned an item.                           *)
(***************************************************************************)
C11_FallbackChannelFromUsername ==
  /\ ( /\ Len(lookupLog) = 2
       /\ NoMatch(lookupLog[1].resp)
       /\ ~NoMatch(lookupLog[2].resp) )
     => /\ lookupLog[2].param = "forUsername"
        /\ channel = Some([id |-> lookupLog[2].resp.items[1].id,
                           handle |-> handle])
        /\ (Returned => retval.val[1] = channel)
  /\ IsSome(channel) =>
       \E i \in 1..Len(lookupLog) : ~NoMatch(lookupLog[i].resp)
  /\ (Returned /\ \A i \in 1..Len(lookupLog) : NoMatch(lookupLog[i].resp))
       => retval.val[1] = None

C11_Witness ==
  /\ Returned
  /\ handle = <<"@", "a">>
  /\ Len(lookupLog) = 2
  /\ lookupLog[1].resp.kind = "raise"
  /\ lookupLog[2].resp.kind = "ok"
  /\ Len(lookupLog[2].resp.items) = 2
  /\ retval.val[1] = Some([id |-> "UC2", handle |-> <<"@", "a">>])


(***************************************************************************)
(* C17: within one call the stages never overlap: a channel lookup is      *)
(* issued only while no search page request and no like request has been   *)
(* issued, a search page request only while no like request has been       *)
(* issued, and every step issues at most one API request, whose answer it  *)
(* consumes before the next request is issued.                             *)
(***************************************************************************)
NumRateEvents == Len(SelectSeq(events, IsRate))
NumRequests == Len(lookupLog) + pageRequests + NumRateEvents

C17_StagesInOrder ==
  [][ /\ Len(lookupLog') > Len(lookupLog) =>
           /\ pageRequests = 0 /\ pageRequests' = 0
           /\ NumRateEvents = 0 /\ NumRateEvents' = 0
      /\ pageRequests' > pageRequests =>
           /\ pc = "fetch"
           /\ NumRateEvents = 0 /\ NumRateEvents' = 0
      /\ NumRateEvents' > NumRateEvents => pc = "like"
      /\ NumRequests' <= NumRequests + 1 ]_vars

C17_Witness ==
  /\ pc = "done"
  /\ Len(lookupLog) = 2
  /\ pageRequests = 2
  /\ NumRateEvents = 2

(***************************************************************************)
(* C18: in like_videos_with_callback the events of position i are, in      *)
(* order, one like request for video i and then one callback invocation    *)
(* (i, N, video i), after a failed attempt (quota-flagged included) as     *)
(* well as after a successful one; the like request of video i+1 follows   *)
(* only if the result of video i is not quota-exceeded.                    *)
(***************************************************************************)
C18_RequestThenCallback ==
  has_callback =>
    /\ \A n \in 1..Len(events) :
         IF n % 2 = 1
         THEN /\ events[n].type = "rate"
              /\ events[n].id = videos[(n + 1) \div 2].id
              /\ (events[n].outcome.kind = "raise" => n = Len(events))
              /\ (n > 2 => ~results[(n - 1) \div 2].quota_exceeded)
         ELSE /\ events[n] = [type |-> "callback", current |-> n \div 2,
                              total |-> Len(videos),
                              video |-> videos[n \div 2]]
    /\ \A i \in 1..Len(results) :
         /\ Len(events) >= 2 * i
         /\ events[2 * i - 1].outcome.kind # "raise"
         /\ (results[i].quota_exceeded => Len(events) = 2 * i)

C18_Witness ==
  /\ Returned
  /\ has_callback
  /\ Len(videos) = 2
  /\ Len(events) = 4
  /\ PlainFailure(events[1].outcome)
  /\ events[2].type = "callback"
  /\ QuotaFlagged(events[3].outcome)
  /\ events[4] = [type |-> "callback", current |-> 2, total |-> 2,
                  video |-> videos[2]]


(***************************************************************************)
(* C15: for every handle string h, clean_handle gives the same lookup key  *)
(* with and without the '@' prefix and is idempotent:                      *)
(* clean_handle('@' + h) = clean_handle(h) and                             *)
(* clean_handle(clean_handle(h)) = clean_handle(h).                        *)
(***************************************************************************)
C15_CleanHandlePrefixAndIdempotent ==
  IsSome(cleanOut) =>
    /\ cleanOut.val.prefixed = cleanOut.val.plain
    /\ cleanOut.val.twice = cleanOut.val.plain

C15_Witness ==
  /\ IsSome(cleanOut)
  /\ cleanIn = <<"@", "@", "a", "@">>
  /\ cleanOut.val.plain = <<"a", "@">>
  /\ cleanOut.val.prefixed = <<"a", "@">>

(***************************************************************************)
(* The desktop front-end: the main thread and the worker threads.          *)
(***************************************************************************)
\* self.message_queue.put(...), one after the other
Put(msgs) == message_queue' = message_queue \o msgs

\* worker w is inside like_all_channel_videos
Inside(w) == gw[w].pc \in {"workflow", "like"}

\* _on_start_clicked past the is_running test: the button is disabled, the
\* statistics are reset and the worker thread is started
StartWorker ==
  /\ \E w \in GuiRuns :
       /\ gw[w].pc = "idle"
       /\ \A q \in GuiRuns : q < w => gw[q].pc # "idle"
       /\ gw' = [gw EXCEPT ![w].pc = "begin"]
  /\ is_running' = TRUE
  /\ total_label' = 0
  /\ liked_label' = 0
  /\ UNCHANGED <<message_queue, status_label, draining>>

OnStartClickedNoGuard ==
  /\ ~draining
  /\ StartWorker

\* _on_start_clicked: an event of the main thread, so never handled while
\* _process_messages is draining the queue
OnStartClicked ==
  /\ ~draining
  /\ IF is_running
     THEN UNCHANGED guiVars
     ELSE StartWorker

\* _run_workflow, "# Authentication"
GuiBegin(w) ==
  /\ gw[w].pc = "begin"
  /\ Put(<<StatusMessage("Authenticating with YouTube...", 0, 0)>>)
  /\ gw' = [gw EXCEPT ![w].pc = "auth"]
  /\ UNCHANGED <<is_running, status_label, total_label, liked_label, draining>>

\* get_authenticated_service returns (then "# Finding channel") or raises
GuiAuth(w) ==
  /\ gw[w].pc = "auth"
  /\ \/ /\ Put(<<StatusMessage("Finding channel: {channel}", 0, 0)>>)
        /\ gw' = [gw EXCEPT ![w].pc = "workflow"]
     \/ /\ gw' = [gw EXCEPT ![w].pc = "except"]
        /\ UNCHANGED message_queue
  /\ UNCHANGED <<is_running, status_label, total_label, liked_label, draining>>

\* like_all_channel_videos up to the like loop
GuiResolve(w) ==
  /\ gw[w].pc = "workflow"
  /\ \/ gw' = [gw EXCEPT ![w].pc = "returned"]
     \/ gw' = [gw EXCEPT ![w].pc = "except"]
     \/ \E n \in 0..MaxRunVideos :
          gw' = [gw EXCEPT ![w].pc = IF n = 0 THEN "returned" ELSE "like",
                           ![w].found = TRUE, ![w].n = n]
  /\ UNCHANGED <<is_running, message_queue, status_label, total_label,
                 liked_label, draining>>

\* one iteration of like_videos_with_callback: like_video, results.append,
\* on_progress(i, total, video), the quota test
GuiLikeOne(w) ==
  /\ gw[w].pc = "like"
  /\ \E outcome \in RunRateOutcomes :
       IF outcome.kind = "raise"
       THEN /\ gw' = [gw EXCEPT ![w].pc = "except"]
            /\ UNCHANGED message_queue
       ELSE LET current == gw[w].i + 1
                total == gw[w].n
                result == like_video(Video(VideoIdAt(current)), outcome)
            IN /\ Put(<<StatsMessage(total, current),
                        StatusMessage("Liking videos... {current}/{total}",
                                      current, total)>>)
               /\ gw' = [gw EXCEPT
                    ![w].i = current,
                    ![w].quota = ShouldBreak(result),
                    ![w].pc = IF ShouldBreak(result) \/ current = total
                              THEN "returned" ELSE "like"]
  /\ UNCHANGED <<is_running, status_label, total_label, liked_label, draining>>

\* self.message_queue.put(("stats", (len(videos), 0)))
StatsAfterRun(total) == StatsMessage(total, 0)

GuiReturnedNotFoundSilent(w) ==
  /\ gw[w].pc = "returned"
  /\ IF ~gw[w].found
     THEN /\ gw' = [gw EXCEPT ![w].pc = "end"]
          /\ UNCHANGED message_queue
     ELSE /\ Put(<<StatsAfterRun(gw[w].n),
                   IF gw[w].quota
                   THEN StatusMessage("Quota Exceeded - Try again tomorrow!",
                                      0, 0)
                   ELSE StatusMessage("Completed!", 0, 0),
                   CompleteMessage>>)
          /\ gw' = [gw EXCEPT ![w].pc = "dialog"]
  /\ UNCHANGED <<is_running, status_label, total_label, liked_label, draining>>

\* after like_all_channel_videos returned: not found, quota exceeded, completed
GuiReturned(w) ==
  /\ gw[w].pc = "returned"
  /\ IF ~gw[w].found
     THEN /\ Put(<<ErrorMessage("Channel not found: {channel}")>>)
          /\ gw' = [gw EXCEPT ![w].pc = "end"]
     ELSE /\ Put(<<StatsAfterRun(gw[w].n),
                   IF gw[w].quota
                   THEN StatusMessage("Quota Exceeded - Try again tomorrow!",
                                      0, 0)
                   ELSE StatusMessage("Completed!", 0, 0),
                   CompleteMessage>>)
          /\ gw' = [gw EXCEPT ![w].pc = "dialog"]
  /\ UNCHANGED <<is_running, status_label, total_label, liked_label, draining>>

\* "except Exception as e:"
GuiExcept(w) ==
  /\ gw[w].pc = "except"
  /\ Put(<<ErrorMessage("Error: {str(e)}")>>)
  /\ gw' = [gw EXCEPT ![w].pc = "dialog"]
  /\ UNCHANGED <<is_running, status_label, total_label, liked_label, draining>>

\* messagebox.showwarning / showinfo / showerror returns when dismissed
GuiDialog(w) ==
  /\ gw[w].pc = "dialog"
  /\ gw' = [gw EXCEPT ![w].pc = "end"]
  /\ UNCHANGED <<is_running, message_queue, status_label, total_label,
                 liked_label, draining>>

\* one turn of the while loop of _process_messages
ProcessMessage ==
  /\ message_queue # <<>>
  /\ LET msg == Head(message_queue)
     IN /\ message_queue' = Tail(message_queue)
        /\ draining' = (Tail(message_queue) # <<>>)
        /\ status_label' =
             IF msg.kind = "status" THEN StatusText(msg.text, msg.a, msg.b)
             ELSE IF msg.kind = "error" THEN StatusText("Error occurred", 0, 0)
             ELSE status_label
        /\ total_label' = IF msg.kind = "stats" THEN msg.a ELSE total_label
        /\ liked_label' = IF msg.kind = "stats" THEN msg.b ELSE liked_label
        /\ is_running' = IF msg.kind \in {"error", "complete"}
                         THEN FALSE ELSE is_running
  /\ UNCHANGED gw

GuiWorkerStep(w) ==
  \/ GuiBegin(w) \/ GuiAuth(w) \/ GuiResolve(w) \/ GuiLikeOne(w)
  \/ GuiReturned(w) \/ GuiExcept(w) \/ GuiDialog(w)

InitGui ==
  /\ CoreIdle
  /\ CleanIdle
  /\ WebIdle
  /\ GuiIdle

NextGui ==
  \/ OnStartClicked /\ UNCHANGED <<vars, cleanVars, webVars>>
  \/ ProcessMessage /\ UNCHANGED <<vars, cleanVars, webVars>>
  \/ \E w \in GuiRuns : GuiWorkerStep(w) /\ UNCHANGED <<vars, cleanVars, webVars>>

SpecGui == InitGui /\ [][NextGui]_allVars

\* a step of worker w, and a turn of the message processor; nothing else moves
GuiWorkerRun(w) == GuiWorkerStep(w) /\ UNCHANGED <<vars, cleanVars, webVars>>
ProcessRun == ProcessMessage /\ UNCHANGED <<vars, cleanVars, webVars>>

\* each worker thread is scheduled as long as it has a step to take (every
\* call it makes returns or raises), and root.after(100, ...) keeps the
\* message processor running
SpecGuiFair ==
  /\ SpecGui
  /\ \A w \in GuiRuns : WF_allVars(GuiWorkerRun(w))
  /\ WF_allVars(ProcessRun)

(***************************************************************************)
(* Properties of the web front-end.                                        *)
(***************************************************************************)
\* run r ended after a like request reported quota exhaustion
QuotaStopped(r) == wk[r].pc = "end" /\ wk[r].quota
\* run r ended having attempted every video, none reporting quota exhaustion
FullRun(r) ==
  /\ wk[r].pc = "end"
  /\ wk[r].found
  /\ wk[r].err = ""
  /\ wk[r].i = wk[r].n
  /\ ~wk[r].quota
\* the status tag and message of the final snapshot
FinalStatus == <<snapshot.status, snapshot.message>>
\* the final status of a full run over n videos, successful of them liked
FullRunFinal(n, successful) == <<"completed", MsgCompleted(successful, n)>>
FullRunFinals ==
  { FullRunFinal(n, successful) : n \in 0..MaxRunVideos,
                                  successful \in 0..MaxRunVideos }
\* the order of the statuses of a successful run
Rank(status) ==
  CASE status = "idle" -> 0
    [] status = "authenticating" -> 1
    [] status = "fetching" -> 2
    [] status = "liking" -> 3
    [] status = "completed" -> 4
    [] OTHER -> 5

\* C12: within a single run of the web front-end, liked_videos and
\* total_videos never decrease: not from one value of the snapshot to the
\* next, and not from one response of /progress to the next.
C12_WebCountersNeverDecrease ==
  [][ /\ snapshot'.liked_videos >= snapshot.liked_videos
      /\ snapshot'.total_videos >= snapshot.total_videos
      /\ (IsSome(polled) /\ IsSome(polled')) =>
           /\ polled'.val.liked_videos >= polled.val.liked_videos
           /\ polled'.val.total_videos >= polled.val.total_videos
    ]_allVars

\* a response seen during the like loop (two liked, total still 0), and the
\* final snapshot with both counters raised
C12_Witness ==
  /\ IsSome(polled)
  /\ polled.val.status = "liking"
  /\ polled.val.liked_videos = 2
  /\ polled.val.total_videos = 0
  /\ snapshot.status = "completed"
  /\ snapshot.liked_videos = 2
  /\ snapshot.total_videos = 2

\* C14 (web front-end): the final status of a run stopped by quota exhaustion
\* is not the generic error status and is not the final status of any run
\* that attempted every video without quota exhaustion.
C14_WebQuotaStatusDistinct ==
  /\ FullRun(1) => FinalStatus = FullRunFinal(wk[1].n, wk[1].successful)
  /\ QuotaStopped(1) =>
       /\ snapshot.status # "error"
       /\ FinalStatus \notin FullRunFinals

\* C16: a /start request is never refused while an earlier worker is in
\* flight; handling it resets the snapshot, starts the next worker and leaves
\* the earlier workers running.
C16_StartNotGuarded ==
  /\ [](\A r \in Runs :
         (wk[r].pc = "idle" /\ \A q \in Runs : q < r => InFlight(q))
           => ENABLED StartLiking(r))
  /\ [][\A r \in Runs :
         (wk[r].pc = "idle" /\ wk'[r].pc # "idle") =>
           /\ snapshot' = initial
           /\ wk'[r].pc = "auth_get"
           /\ \A q \in Runs \ {r} : wk'[q] = wk[q]
       ]_allVars

\* the later run is still in progress, and the snapshot holds the terminal
\* status and the liked count written by the earlier run after the reset
C16_Witness ==
  /\ InFlight(2)
  /\ lastWriter = 1
  /\ wk[1].pc = "end"
  /\ snapshot.status = "completed"
  /\ snapshot.liked_videos = 2

\* C19: a single run of the web front-end reaches its end with a terminal
\* status: error (counters and channel fields kept) when no channel was found
\* or an exception was caught, completed otherwise; nothing is written after
\* it, and short of an error the status only moves forward.
C19_RunEndsInTerminalStatus ==
  /\ (wk[1].pc # "idle") ~> (wk[1].pc = "end")
  /\ [](wk[1].pc = "end" =>
          IF wk[1].err # "" THEN FinalStatus = <<"error", MsgError(wk[1].err)>>
          ELSE IF ~wk[1].found
               THEN FinalStatus = <<"error", MsgNotFound(ChannelUsername)>>
               ELSE snapshot.status = "completed")
  /\ [][ /\ snapshot'.status = "error" =>
              /\ snapshot'.total_videos = snapshot.total_videos
              /\ snapshot'.liked_videos = snapshot.liked_videos
              /\ snapshot'.current_video_id = snapshot.current_video_id
              /\ snapshot'.channel_id = snapshot.channel_id
              /\ snapshot'.channel_name = snapshot.channel_name
         /\ wk[1].pc = "end" => snapshot' = snapshot
         /\ snapshot'.status # "error" =>
              Rank(snapshot'.status) >= Rank(snapshot.status)
       ]_allVars

\* a like request raised after one video was liked: error, the count kept
C19_Witness ==
  /\ wk[1].pc = "end"
  /\ wk[1].err = "rate"
  /\ snapshot.status = "error"
  /\ snapshot.liked_videos = 1
  /\ snapshot.channel_name = ChannelUsername

(***************************************************************************)
(* Properties of the desktop front-end.                                    *)
(***************************************************************************)
\* the main thread takes a 'stats' message off the queue
AppliesStats ==
  /\ message_queue # <<>>
  /\ Head(message_queue).kind = "stats"
  /\ message_queue' = Tail(message_queue)
  /\ gw' = gw

\* a 'complete' or 'error' message
Terminal(msg) == msg.kind \in {"complete", "error"}
\* a worker puts a 'complete' or 'error' message on the queue
PutsTerminal ==
  /\ Len(message_queue') > Len(message_queue)
  /\ Terminal(message_queue'[Len(message_queue')])
\* the main thread takes a 'complete' or 'error' message off the queue
AppliesTerminal ==
  /\ message_queue # <<>>
  /\ Terminal(Head(message_queue))
  /\ message_queue' = Tail(message_queue)
  /\ gw' = gw

\* C13: in the desktop front-end the 'videos liked' statistic never decreases
\* when the message processor applies a 'stats' message.
C13_GuiLikedNeverDecreases ==
  [][AppliesStats => liked_label' >= liked_label]_allVars

\* C20: at most one worker is inside like_all_channel_videos, and while one
\* is, is_running is true and no 'complete' or 'error' message is queued; a
\* click while is_running is true starts no thread; is_running becomes false
\* only by applying a 'complete' or 'error' message; a worker puts such a
\* message only after like_all_channel_videos returned or raised (or was
\* never entered).
C20_AtMostOneWorkerInside ==
  /\ [](Cardinality({w \in GuiRuns : Inside(w)}) <= 1)
  /\ [](\A w \in GuiRuns :
          Inside(w) =>
            /\ is_running
            /\ \A k \in 1..Len(message_queue) : ~Terminal(message_queue[k]))
  /\ [][ /\ is_running =>
              \A w \in GuiRuns : gw[w].pc = "idle" => gw'[w].pc = "idle"
         /\ (is_running /\ ~is_running') => AppliesTerminal
         /\ PutsTerminal =>
              \E w \in GuiRuns :
                /\ gw[w].pc \in {"returned", "except"}
                /\ gw'[w].pc \in {"dialog", "end"}
       ]_allVars

\* the second worker is inside like_all_channel_videos while the first, whose
\* 'complete' was applied, is still in its message box
C20_Witness ==
  /\ gw[1].pc = "dialog"
  /\ gw[2].pc = "like"
  /\ gw[2].i = 1
  /\ is_running
(***************************************************************************)
(* Further properties of the web front-end.                                *)
(***************************************************************************)
\* C21: in every snapshot of a single run, as held by the progress manager
\* and as returned by /progress, liked_videos is at most total_videos, and
\* while the status is 'liking' total_videos is the total the callback
\* reported.
C21_LikedAtMostTotal ==
  /\ snapshot.liked_videos <= snapshot.total_videos
  /\ IsSome(polled) => polled.val.liked_videos <= polled.val.total_videos
  /\ snapshot.status = "liking" => snapshot.total_videos = snapshot.message.b

(***************************************************************************)
(* Further properties of the desktop front-end.                            *)
(***************************************************************************)
\* worker w has left the try block of _run_workflow
Finished(w) == gw[w].pc \in {"dialog", "end"}

\* C22: every started worker finishes, and the step by which it finishes
\* puts a 'complete' or an 'error' message on the queue, whatever its path;
\* is_running then becomes false again, and a click is then accepted.
C22_RunEndsWithTerminalMessage ==
  /\ \A w \in GuiRuns : (gw[w].pc = "begin") ~> Finished(w)
  /\ is_running ~> ~is_running
  /\ [][\A w \in GuiRuns :
          (~Finished(w) /\ Finished(w)') => PutsTerminal]_allVars
  /\ []((~is_running /\ ~draining /\ \E w \in GuiRuns : gw[w].pc = "idle")
          => ENABLED StartWorker)

\* the first run stopped at quota exhaustion, its 'complete' was applied and
\* a second run was started
C22_Witness ==
  /\ gw[1].quota
  /\ Finished(1)
  /\ gw[2].pc = "begin"
  /\ is_running
  /\ status_label = StatusText("Quota Exceeded - Try again tomorrow!", 0, 0)
====
